---- MODULE Spec2Model ----
(***************************************************************************)
(* A model of two parts of ModSecurity:                                    *)
(*   - RulesSetPhases (src/rules_set_phases.cc): the phase table, its      *)
(*     insert and its append;                                              *)
(*   - Utils::Regex (src/utils/regex.cc): the matching operations built on *)
(*     PCRE or PCRE2.                                                      *)
(* The two parts share no state; each has a specification of its own       *)
(* (SpecPhases for the table; SpecGlobal, SpecSearch, SpecAll and          *)
(* SpecThreads for the matching operations).                               *)
(***************************************************************************)
EXTENDS Integers, Sequences, FiniteSets, TLC

VARIABLES
    \* ---- phase table ----
    m_rulesAtPhase,   \* this->m_rulesAtPhase: bucket index -> sequence of rules
    fromTable,        \* the table handed to append as `from`
    lastOp,           \* the last call made on `this`, its arguments and its result
    appendLog,        \* one record per append call on `this`, in call order
    dstInserts,       \* number of insert calls made on `this`
    srcInserts,       \* number of insert calls made on `from`
    ptState,          \* "load", or "undefined" once a call had undefined behaviour
    \* ---- Regex: the build and the constructed pattern ----
    build,            \* "PCRE" or "PCRE2" (WITH_PCRE2)
    crlf,             \* what crlfIsNewline() returns under the engine's configuration
    accel,            \* PCRE: m_pce != NULL; PCRE2: m_pcje == 0 (the pattern was JIT-compiled)
    pattern,          \* the pattern text handed to the constructor
    \* ---- Regex: one call ----
    s,                \* the subject
    match_limit,      \* the match_limit argument
    gpc,              \* searchGlobal: "idle", "loop", "done", or "crashed"
    startOffset,      \* searchGlobal: startOffset
    prev_match_zero_length,
    captures,         \* the caller's capture collection
    gResult,          \* what searchGlobal returned
    attemptLog,       \* searchGlobal: one record per match attempt of the call
    \* ---- Regex: the calls that make one match attempt at offset 0 ----
    spc,              \* "idle", or "ready" once a pattern and a subject are chosen
    eng,              \* what the engine answers at offset 0: [jit, interp]
    searchCall,       \* search(s): the call's record (its return value), NoOp before the call
    searchMatchCall,  \* search(s, match): the call's record (return value, *match)
    oneMatch,         \* searchOneMatch: the call's record, NoOp before the call
    \* ---- Regex: searchAll ----
    apc,              \* searchAll: "idle", "loop" or "done"
    allOffset,        \* searchAll: offset
    retList,          \* searchAll: retList, front first
    allLog,           \* searchAll: one record per match attempt of the call
    \* ---- Regex: calls running concurrently on one Regex object ----
    m_pce,            \* PCRE: the study data *m_pce, as far as the match limit goes
    calls             \* per thread: the call it runs and the call's locals

ptVars == <<m_rulesAtPhase, fromTable, lastOp, appendLog, dstInserts, srcInserts, ptState>>

cfgVars == <<build, crlf, accel>>

inVars == <<pattern, s, match_limit>>

gVars == <<gpc, startOffset, prev_match_zero_length, captures, gResult, attemptLog>>

sVars == <<spc, eng, searchCall, searchMatchCall, oneMatch>>

aVars == <<apc, allOffset, retList, allLog>>

tVars == <<m_pce, calls>>

vars == <<ptVars, cfgVars, inVars, gVars, sVars, aVars, tVars>>

(***************************************************************************)
(* Phase table: src/rules_set_phases.cc                                    *)
(***************************************************************************)

\* modsecurity::Phases::NUMBER_OF_PHASES
NUMBER_OF_PHASES == 7

\* Bounds of the phase-table model.
MaxDstInserts == 1
MaxSrcInserts == 2
MaxAppends == 2

PhaseIndexes == 0 .. (NUMBER_OF_PHASES - 1)

\* The phases a rule handed to insert may declare: two valid ones, the last
\* valid one, and the invalid ones on either side of the range.
InputPhases == {-1, 0, 1, NUMBER_OF_PHASES, NUMBER_OF_PHASES + 1}

RuleIds == {1, 2}

\* A rule: its phase, whether it is a RuleWithOperator (the dynamic_cast of
\* append succeeds), and its m_ruleId.
InputRules ==
    { r \in [phase : InputPhases, op : BOOLEAN, id : RuleIds] : r.op \/ r.id = 1 }

EmptyTable == [i \in PhaseIndexes |-> << >>]

\* Rule::getPhase() is an int; NUMBER_OF_PHASES promotes to int, so the
\* comparison is signed and a negative phase is not rejected.
InsertRejects(rule) == rule.phase >= NUMBER_OF_PHASES

\* RulesSetPhases::insert on table t.  The result is a set of outcomes
\* [table, ret, touched]: one outcome where the behaviour is defined, and
\* for an index below the array (undefined behaviour) every outcome a build
\* can produce: the write lands outside the array and the call returns true,
\* or the process crashes.
InsertOutcomes(t, rule) ==
    IF InsertRejects(rule)
    THEN { [table |-> t, ret |-> "false", touched |-> {}] }
    ELSE IF rule.phase \in PhaseIndexes
    THEN { [table |-> [t EXCEPT ![rule.phase] = Append(@, rule)],
            ret |-> "true", touched |-> {rule.phase}] }
    ELSE { [table |-> t, ret |-> r, touched |-> {rule.phase}] :
             r \in {"true", "crash"} }

NoOp == [op |-> "none"]

\* The variables of the single-attempt calls where none is made.
SearchUnused ==
    /\ spc = "idle"
    /\ eng = NoOp
    /\ searchCall = NoOp
    /\ searchMatchCall = NoOp
    /\ oneMatch = NoOp

\* The variables of searchAll where no call is made.
AllUnused ==
    /\ apc = "idle"
    /\ allOffset = 0
    /\ retList = << >>
    /\ allLog = << >>

\* The number of threads that call into one Regex object.
NumThreads == 2

Threads == 1 .. NumThreads

\* The match-limit part of the pcre_extra block pcre_study returns: no
\* limit, the PCRE_EXTRA_MATCH_LIMIT flag clear.
StudyData == [match_limit |-> 0, limitFlag |-> FALSE]

\* A thread that runs no call.
IdleCall == [pc |-> "idle"]

\* The variables of the concurrent calls where there are none.
ThreadsUnused ==
    /\ m_pce = StudyData
    /\ calls = [t \in Threads |-> IdleCall]

\* The Regex variables where no Regex is in use.
RegexUnused ==
    /\ build = "PCRE"
    /\ crlf = FALSE
    /\ accel = FALSE
    /\ pattern = ""
    /\ s = << >>
    /\ match_limit = 0
    /\ gpc = "idle"
    /\ startOffset = 0
    /\ prev_match_zero_length = FALSE
    /\ captures = << >>
    /\ gResult = "none"
    /\ attemptLog = << >>
    /\ SearchUnused
    /\ AllUnused
    /\ ThreadsUnused

InitPhases_pt ==
    /\ m_rulesAtPhase = EmptyTable
    /\ fromTable = EmptyTable
    /\ lastOp = NoOp
    /\ appendLog = << >>
    /\ dstInserts = 0
    /\ srcInserts = 0
    /\ ptState = "load"

InitPhases == InitPhases_pt /\ RegexUnused

\* this->insert(rule)
Insert ==
    /\ ptState = "load"
    /\ dstInserts < MaxDstInserts
    /\ \E rule \in InputRules : \E o \in InsertOutcomes(m_rulesAtPhase, rule) :
        /\ m_rulesAtPhase' = o.table
        /\ lastOp' = [op |-> "insert", rule |-> rule, ret |-> o.ret,
                      before |-> m_rulesAtPhase, touched |-> o.touched]
        /\ ptState' = IF o.touched \subseteq PhaseIndexes THEN "load" ELSE "undefined"
    /\ dstInserts' = dstInserts + 1
    /\ UNCHANGED <<fromTable, appendLog, srcInserts>>

\* The rules of the table that append reads: it is a table loaded without
\* error, so its rules have valid phases.
FromRules == { r \in InputRules : r.phase \in PhaseIndexes }

\* from->insert(rule): the same code, run on the table that append reads.
\* That table is loaded before it is first appended.
InsertFrom ==
    /\ ptState = "load"
    /\ srcInserts < MaxSrcInserts
    /\ appendLog = << >>
    /\ \E rule \in FromRules : \E o \in InsertOutcomes(fromTable, rule) :
        /\ fromTable' = o.table
        /\ ptState' = IF o.touched \subseteq PhaseIndexes THEN "load" ELSE "undefined"
    /\ srcInserts' = srcInserts + 1
    /\ UNCHANGED <<m_rulesAtPhase, lastOp, appendLog, dstInserts>>

\* The m_ruleId of every RuleWithOperator of one bucket, in bucket order
\* (the inner loop of append, lines 48-54).
RECURSIVE OperatorIds(_)
OperatorIds(bucket) ==
    IF bucket = << >> THEN << >>
    ELSE IF Head(bucket).op
         THEN <<Head(bucket).id>> \o OperatorIds(Tail(bucket))
         ELSE OperatorIds(Tail(bucket))

\* The outer loop of append, lines 46-55: the buckets from phase i upwards.
RECURSIVE CollectIds(_, _)
CollectIds(t, i) ==
    IF i >= NUMBER_OF_PHASES THEN << >>
    ELSE OperatorIds(t[i]) \o CollectIds(t, i + 1)

\* std::sort on a vector of identifiers.
RECURSIVE SortedInsert(_, _)
SortedInsert(x, sorted) ==
    IF sorted = << >> THEN <<x>>
    ELSE IF x <= Head(sorted) THEN <<x>> \o sorted
    ELSE <<Head(sorted)>> \o SortedInsert(x, Tail(sorted))

RECURSIVE Sort(_)
Sort(v) == IF v = << >> THEN << >> ELSE SortedInsert(Head(v), Sort(Tail(v)))

\* The exclusion list v that append builds: lines 44-56.
ExclusionList(t) == Sort(CollectIds(t, 0))

InSeq(x, v) == \E k \in 1 .. Len(v) : v[k] = x

\* Rules::append(from, ids, err), the per-bucket merge.  Its code is not in
\* src/; this follows the specification (section 4.2, merge_from): the rules
\* of the source bucket are copied in order, a rule whose identifier is in
\* the exclusion list is skipped, the result is the number of rules copied;
\* or the merge fails with a negative result on a duplicate identifier,
\* copying nothing.
Conflicts(rule, v) == rule.op /\ InSeq(rule.id, v)

BucketMerge(bucket, srcBucket, v) ==
    LET kept == SelectSeq(srcBucket, LAMBDA r : ~Conflicts(r, v))
    IN  { [bucket |-> bucket \o kept, res |-> Len(kept)] } \cup
        IF \E k \in 1 .. Len(srcBucket) : Conflicts(srcBucket[k], v)
        THEN { [bucket |-> bucket, res |-> -1] }
        ELSE {}

\* A faulty merge loop: a failed phase does not end the loop; the later
\* phases are merged before the failure is returned.
RECURSIVE MergeFrom_MergesOn(_, _, _, _, _)
MergeFrom_MergesOn(t, from, v, phase, amount_of_rules) ==
    IF phase >= NUMBER_OF_PHASES
    THEN { [table |-> t, ret |-> amount_of_rules] }
    ELSE UNION { IF m.res < 0
                 THEN { [table |-> o.table, ret |-> m.res] :
                          o \in MergeFrom_MergesOn([t EXCEPT ![phase] = m.bucket], from, v,
                                                   phase + 1, amount_of_rules) }
                 ELSE MergeFrom_MergesOn([t EXCEPT ![phase] = m.bucket], from, v,
                                         phase + 1, amount_of_rules + m.res)
                 : m \in BucketMerge(t[phase], from[phase], v) }

\* The merge loop of append, lines 58-66, from phase `phase` on: the set of
\* outcomes [table, ret].
RECURSIVE MergeFrom(_, _, _, _, _)
MergeFrom(t, from, v, phase, amount_of_rules) ==
    IF phase >= NUMBER_OF_PHASES
    THEN { [table |-> t, ret |-> amount_of_rules] }
    ELSE UNION { IF m.res < 0
                 THEN { [table |-> [t EXCEPT ![phase] = m.bucket], ret |-> m.res] }
                 ELSE MergeFrom([t EXCEPT ![phase] = m.bucket], from, v,
                                phase + 1, amount_of_rules + m.res)
                 : m \in BucketMerge(t[phase], from[phase], v) }

\* RulesSetPhases::append(from, err)
AppendOutcomes(t, from) == MergeFrom(t, from, ExclusionList(t), 0, 0)

\* this->append(from, err)
AppendTable ==
    /\ ptState = "load"
    /\ Len(appendLog) < MaxAppends
    /\ \E o \in AppendOutcomes(m_rulesAtPhase, fromTable) :
        /\ m_rulesAtPhase' = o.table
        /\ lastOp' = [op |-> "append", ret |-> o.ret, before |-> m_rulesAtPhase]
        /\ appendLog' = Append(appendLog,
               [from |-> fromTable, before |-> m_rulesAtPhase,
                v |-> ExclusionList(m_rulesAtPhase),
                after |-> o.table, ret |-> o.ret])
    /\ UNCHANGED <<fromTable, dstInserts, srcInserts, ptState>>

NextPhases ==
    \/ Insert /\ UNCHANGED <<cfgVars, aVars, tVars, inVars, gVars, sVars>>
    \/ InsertFrom /\ UNCHANGED <<cfgVars, aVars, tVars, inVars, gVars, sVars>>
    \/ AppendTable /\ UNCHANGED <<cfgVars, aVars, tVars, inVars, gVars, sVars>>

SpecPhases == InitPhases /\ [][NextPhases]_vars

(***************************************************************************)
(* Regex: src/utils/regex.cc.  The matching engine (pcre_exec, pcre2_match, *)
(* pcre2_jit_match) is the library's; it is modelled by what it answers:   *)
(* a result code rc and, for rc > 0, the offset pairs of groups 0..rc-1.   *)
(***************************************************************************)

\* Bounds of the Regex model.
MaxLen == 3
MaxCraftLen == 1

Builds == {"PCRE", "PCRE2"}

\* The bytes subjects are made of.
Alphabet == {"a", "X", "CR", "LF"}

RECURSIVE SeqsUpTo(_, _)
SeqsUpTo(S, n) ==
    IF n = 0 THEN { << >> }
    ELSE LET shorter == SeqsUpTo(S, n - 1)
         IN  shorter \cup { Append(q, c) : q \in { r \in shorter : Len(r) = n - 1 }, c \in S }

\* Subjects: every string over the alphabet up to MaxLen bytes, and "aXbXc".
Subjects == SeqsUpTo(Alphabet, MaxLen) \cup { <<"a", "X", "b", "X", "c">> }

\* The patterns handed to the constructor.  "crafted" stands for a pattern
\* whose engine answers are arbitrary (an engine response crafted by an
\* attacker or a faulty engine); the others are answered as PCRE answers them.
HonestPatterns == {"", "X", "XX", "(?:)", "X*", "(X)|(a)"}
Patterns == HonestPatterns \cup {"crafted"}

\* A pattern text the engine does not compile: pcre_compile / pcre2_compile
\* return NULL and the constructor (lines 100-101 / 111-112) keeps it in m_pc.
InvalidPattern == "("

\* m_pc != NULL
Compiled(pattern_) == pattern_ # InvalidPattern

\* The patterns a Regex object is constructed from.  Without a compiled
\* handle there is no study data and no JIT code: pcre_study(NULL) returns
\* NULL and pcre2_jit_compile(NULL) an error (lines 102 / 114).
ConstructedPatterns(hasAccel) ==
    IF hasAccel THEN Patterns ELSE Patterns \cup { InvalidPattern }

\* Regex::Regex, line 91: an empty pattern text is replaced by ".*".
CompiledPattern(pattern_) == IF pattern_ = "" THEN ".*" ELSE pattern_

\* Engine result codes (pcre.h, pcre2.h).
ERROR_NOMATCH(b) == -1
ERROR_MATCHLIMIT(b) == IF b = "PCRE2" THEN -47 ELSE -8
ERROR_JIT_STACKLIMIT(b) == IF b = "PCRE2" THEN -46 ELSE -27
ERROR_NOMEMORY(b) == IF b = "PCRE2" THEN -48 ELSE -6
ERROR_NULL(b) == IF b = "PCRE2" THEN -51 ELSE -2

\* An unset group's offsets: -1 in PCRE's int vector, PCRE2_UNSET (~0) in
\* PCRE2's; both read as the largest size_t.
UnsetPair == <<-1, -1>>

NoMatchResponse(b) == [rc |-> ERROR_NOMATCH(b), ov |-> << >>]
ErrorResponse(code) == [rc |-> code, ov |-> << >>]
MatchResponse(ov) == [rc |-> Len(ov), ov |-> ov]

\* End of the run of "X" bytes that starts at offset p.
RECURSIVE RunEnd(_, _)
RunEnd(subject, p) ==
    IF p < Len(subject) /\ subject[p + 1] = "X" THEN RunEnd(subject, p + 1) ELSE p

\* The match of compiled pattern pat that starts exactly at offset p, as a
\* set holding its offset vector, or the empty set.  notEmpty: an empty
\* match is not allowed (PCRE_NOTEMPTY_ATSTART at the start offset).
MatchAt(pat, subject, p, notEmpty) ==
    CASE pat = "X" ->
            IF p < Len(subject) /\ subject[p + 1] = "X"
            THEN { << <<p, p + 1>> >> } ELSE {}
      [] pat = "XX" ->
            IF p + 1 < Len(subject) /\ subject[p + 1] = "X" /\ subject[p + 2] = "X"
            THEN { << <<p, p + 2>> >> } ELSE {}
      [] pat = "(?:)" ->
            IF notEmpty THEN {} ELSE { << <<p, p>> >> }
      [] pat = "X*" ->
            IF notEmpty /\ RunEnd(subject, p) = p THEN {}
            ELSE { << <<p, RunEnd(subject, p)>> >> }
      [] pat = ".*" ->
            IF notEmpty /\ p = Len(subject) THEN {}
            ELSE { << <<p, Len(subject)>> >> }
      [] pat = "(X)|(a)" ->
            IF p < Len(subject) /\ subject[p + 1] = "X"
            THEN { << <<p, p + 1>>, <<p, p + 1>> >> }
            ELSE IF p < Len(subject) /\ subject[p + 1] = "a"
            THEN { << <<p, p + 1>>, UnsetPair, <<p, p + 1>> >> }
            ELSE {}
      [] pat = "(X)a" ->
            IF p + 1 < Len(subject) /\ subject[p + 1] = "X" /\ subject[p + 2] = "a"
            THEN { << <<p, p + 2>>, <<p, p + 1>> >> } ELSE {}
      [] pat = "(?<=(X))a" ->
            IF p >= 1 /\ p < Len(subject) /\ subject[p] = "X" /\ subject[p + 1] = "a"
            THEN { << <<p, p + 1>>, <<p - 1, p>> >> } ELSE {}
      [] OTHER -> {}

\* The leftmost match at or after offset p (an unanchored attempt).
RECURSIVE ScanFrom(_, _, _, _)
ScanFrom(pat, subject, p, b) ==
    IF p > Len(subject) THEN NoMatchResponse(b)
    ELSE IF MatchAt(pat, subject, p, FALSE) # {}
    THEN MatchResponse(CHOOSE ov \in MatchAt(pat, subject, p, FALSE) : TRUE)
    ELSE ScanFrom(pat, subject, p + 1, b)

\* What the engine finds for an honest pattern.  anchoredNotEmpty: the
\* options PCRE_NOTEMPTY_ATSTART | PCRE_ANCHORED are set.
HonestExec(pat, subject, offset, anchoredNotEmpty, b) ==
    IF anchoredNotEmpty
    THEN IF MatchAt(pat, subject, offset, TRUE) # {}
         THEN MatchResponse(CHOOSE ov \in MatchAt(pat, subject, offset, TRUE) : TRUE)
         ELSE NoMatchResponse(b)
    ELSE ScanFrom(pat, subject, offset, b)

\* Crafted answers: every result code class, and for a match every group-0
\* span that starts at or after the start offset (at it, and not empty, when
\* anchored), its end up to one byte past the subject.
CraftedGroup0(subject, offset, anchoredNotEmpty) ==
    { g \in (offset .. Len(subject)) \X (offset .. (Len(subject) + 1)) :
        /\ g[1] <= g[2]
        /\ anchoredNotEmpty => (g[1] = offset /\ g[2] > g[1]) }

CraftedGroup1(subject, g0) == { UnsetPair, g0, <<g0[1], Len(subject) + 1>> }

CraftedMatches(subject, offset, anchoredNotEmpty, maxGroups) ==
    { MatchResponse(<<g0>>) : g0 \in CraftedGroup0(subject, offset, anchoredNotEmpty) } \cup
    IF maxGroups < 2 THEN {}
    ELSE UNION { { MatchResponse(<<g0, g1>>) : g1 \in CraftedGroup1(subject, g0) }
                 : g0 \in CraftedGroup0(subject, offset, anchoredNotEmpty) }

CraftedResponses(subject, offset, anchoredNotEmpty, maxGroups, b) ==
    { NoMatchResponse(b), ErrorResponse(ERROR_MATCHLIMIT(b)),
      ErrorResponse(ERROR_NOMEMORY(b)), ErrorResponse(0) }
    \cup CraftedMatches(subject, offset, anchoredNotEmpty, maxGroups)

\* Every answer one match attempt can get.  limitSet: a match limit is in
\* force for the attempt, so the engine may give up with its match-limit code.
\* Handed a NULL code, the engine answers with its null-argument code.
EngineResponses(pattern_, subject, offset, anchoredNotEmpty, limitSet, maxGroups, b) ==
    IF ~Compiled(pattern_)
    THEN { ErrorResponse(ERROR_NULL(b)) }
    ELSE IF pattern_ = "crafted"
    THEN CraftedResponses(subject, offset, anchoredNotEmpty, maxGroups, b)
    ELSE { HonestExec(CompiledPattern(pattern_), subject, offset, anchoredNotEmpty, b) }
         \cup IF limitSet THEN { ErrorResponse(ERROR_MATCHLIMIT(b)) } ELSE {}

\* The largest size_t.  TLC's integers are 32 bits wide; all that matters of
\* the value is that it is above every subject length.
SIZE_MAX == 2147483647

\* size_t x = ovector[k]: a negative int wraps.
ToSizeT(x) == IF x < 0 THEN (x + 1) + SIZE_MAX ELSE x

\* size_t len = end - start, wrapping.
SizeSub(end, start) == IF end >= start THEN end - start ELSE ((end - start) + SIZE_MAX) + 1

\* A faulty classification: a result of 0 counts as Ok.
to_regex_result_ZeroIsOk(pcre_exec_result, b) ==
    IF pcre_exec_result >= 0 \/ pcre_exec_result = ERROR_NOMATCH(b) THEN "Ok"
    ELSE IF pcre_exec_result = ERROR_MATCHLIMIT(b) THEN "ErrorMatchLimit"
    ELSE "ErrorOther"

\* Regex::to_regex_result, lines 405-428.
to_regex_result(pcre_exec_result, b) ==
    IF pcre_exec_result > 0 \/ pcre_exec_result = ERROR_NOMATCH(b) THEN "Ok"
    ELSE IF pcre_exec_result = ERROR_MATCHLIMIT(b) THEN "ErrorMatchLimit"
    ELSE "ErrorOther"

\* Whether the match limit of the call reaches the engine.  PCRE2: the match
\* context gets it when match_limit > 0 (lines 247-251).  PCRE: a copy of the
\* study data gets it, only when there is study data (lines 268-276).
LimitInForce(b, hasAccel, limit) ==
    IF b = "PCRE2" THEN limit > 0 ELSE hasAccel /\ limit > 0

\* SMatchCapture(group, start, len)
SMatchCapture(group, start, len) == [m_group |-> group, m_offset |-> start, m_length |-> len]

\* Whether group i of an answer passes the bounds check of line 300.
GroupKept(ov, i, subject) == ~(ToSizeT(ov[i + 1][2]) > Len(subject))

\* The capture searchGlobal makes of group i: line 303.
GlobalCaptureIndex(firstGroupForThisFullMatch, i) == firstGroupForThisFullMatch + i

\* The captures the group loop of searchGlobal appends (lines 296-305), for
\* groups i .. rc-1.
RECURSIVE GlobalGroupCaptures(_, _, _, _, _)
GlobalGroupCaptures(ov, rc, i, firstGroupForThisFullMatch, subject) ==
    IF i >= rc THEN << >>
    ELSE (IF GroupKept(ov, i, subject)
          THEN << SMatchCapture(GlobalCaptureIndex(firstGroupForThisFullMatch, i),
                                ToSizeT(ov[i + 1][1]),
                                SizeSub(ToSizeT(ov[i + 1][2]), ToSizeT(ov[i + 1][1]))) >>
          ELSE << >>)
         \o GlobalGroupCaptures(ov, rc, i + 1, firstGroupForThisFullMatch, subject)

\* A faulty cursor rule: after a non-empty match the next attempt starts one
\* byte after the start of the match, not at its end.
CursorAfterMatch_Overlapping(ov, offset, prevZero, subject) ==
    LET start == ToSizeT(ov[1][1])
        end == ToSizeT(ov[1][2])
        len == SizeSub(end, start)
    IN  IF ~GroupKept(ov, 0, subject)
        THEN [startOffset |-> offset, prev |-> prevZero]
        ELSE IF len > 0
        THEN [startOffset |-> start + 1, prev |-> FALSE]
        ELSE IF offset = Len(subject)
        THEN [startOffset |-> offset + 1, prev |-> prevZero]
        ELSE [startOffset |-> offset, prev |-> TRUE]

\* The cursor after a match (lines 306-320): only group 0, and only when it
\* passed the bounds check, moves the cursor or sets the flag.
CursorAfterMatch(ov, offset, prevZero, subject) ==
    LET start == ToSizeT(ov[1][1])
        end == ToSizeT(ov[1][2])
        len == SizeSub(end, start)
    IN  IF ~GroupKept(ov, 0, subject)
        THEN [startOffset |-> offset, prev |-> prevZero]
        ELSE IF len > 0
        THEN [startOffset |-> end, prev |-> FALSE]
        ELSE IF offset = Len(subject)
        THEN [startOffset |-> offset + 1, prev |-> prevZero]
        ELSE [startOffset |-> offset, prev |-> TRUE]

\* A faulty retry rule: always one byte on, CR LF or not.
CursorAfterRetry_OneByte(offset, subject, crlfIsNewline) == offset + 1

\* The cursor after a failed anchored retry (lines 327-332): one byte on, or
\* two over a CR LF pair when CRLF is a newline.
CursorAfterRetry(offset, subject, crlfIsNewline) ==
    IF crlfIsNewline /\ (offset + 1 < Len(subject))
       /\ subject[offset + 1] = "CR" /\ subject[offset + 2] = "LF"
    THEN offset + 2
    ELSE offset + 1

\* Whether searchGlobal checks an attempt's classification before it reads
\* the answer: lines 288-291 are compiled in the PCRE build only.
GlobalChecksResult(b) == b = "PCRE"

\* The longest subject: MaxLen bytes, or the five of "aXbXc".
LongestSubject == IF MaxLen > 5 THEN MaxLen ELSE 5

\* A match attempt may start at most this often in the model.  A call that
\* moves its cursor needs 2 * length + 1 attempts at most; the cap cuts only
\* the calls that no longer move it.
MaxAttempts == 2 * LongestSubject + 2
MaxCraftAttempts == 2 * MaxCraftLen + 2

AttemptCap == IF pattern = "crafted" THEN MaxCraftAttempts ELSE MaxAttempts

GlobalSubjects(pattern_) ==
    IF pattern_ = "crafted"
    THEN { q \in Subjects : Len(q) <= MaxCraftLen /\ \A k \in 1 .. Len(q) : q[k] = "a" }
    ELSE Subjects

MatchLimits == {0, 1000}

\* pcre2_match_data_create_from_pattern(m_pc, NULL), lines 201 / 256: it
\* reads the code's group count, so with m_pc == NULL the PCRE2 build reads
\* through a null pointer.  That is undefined behaviour: the process
\* crashes, or the call goes on with some match data.  The PCRE build keeps
\* its offset vector on the stack.
MatchDataOutcomes(b, pattern_) ==
    IF b = "PCRE2" /\ ~Compiled(pattern_) THEN {"crash", "created"} ELSE {"created"}

InitGlobal ==
    /\ InitPhases_pt
    /\ build \in Builds
    /\ crlf \in BOOLEAN
    /\ accel \in BOOLEAN
    /\ pattern = ""
    /\ s = << >>
    /\ match_limit = 0
    /\ gpc = "idle"
    /\ startOffset = 0
    /\ prev_match_zero_length = FALSE
    /\ captures = << >>
    /\ gResult = "none"
    /\ attemptLog = << >>
    /\ SearchUnused
    /\ AllUnused
    /\ ThreadsUnused

\* A call of searchGlobal(s, captures, match_limit) on a pattern, with an
\* empty capture collection: lines 244-256 / 267-278.
GlobalBegin ==
    /\ gpc = "idle"
    /\ \E p \in ConstructedPatterns(accel) : \E subject \in GlobalSubjects(p) :
       \E limit \in MatchLimits : \E md \in MatchDataOutcomes(build, p) :
        /\ pattern' = p
        /\ s' = subject
        /\ match_limit' = limit
        /\ gpc' = IF md = "crash" THEN "crashed" ELSE "loop"
    /\ startOffset' = 0
    /\ prev_match_zero_length' = FALSE
    /\ captures' = << >>
    /\ UNCHANGED <<gResult, attemptLog, cfgVars, aVars, tVars, ptVars, sVars>>

\* One iteration of the while loop, lines 257-338 / 280-338: one match
\* attempt and what the loop does with its answer.
GlobalAttempt ==
    /\ gpc = "loop"
    /\ startOffset <= Len(s)
    /\ Len(attemptLog) < AttemptCap
    /\ \E r \in EngineResponses(pattern, s, startOffset, prev_match_zero_length,
                                 LimitInForce(build, accel, match_limit), 1, build) :
        /\ attemptLog' = Append(attemptLog,
              [offset |-> startOffset, prev |-> prev_match_zero_length, rc |-> r.rc,
               ov |-> r.ov, before |-> captures,
               limit |-> LimitInForce(build, accel, match_limit)])
        /\ IF GlobalChecksResult(build) /\ to_regex_result(r.rc, build) # "Ok"
           THEN /\ gResult' = to_regex_result(r.rc, build)
                /\ gpc' = "done"
                /\ UNCHANGED <<startOffset, prev_match_zero_length, captures>>
           ELSE IF r.rc > 0
           THEN /\ captures' = captures \o
                       GlobalGroupCaptures(r.ov, r.rc, 0, Len(captures), s)
                /\ startOffset' =
                       CursorAfterMatch(r.ov, startOffset, prev_match_zero_length, s).startOffset
                /\ prev_match_zero_length' =
                       CursorAfterMatch(r.ov, startOffset, prev_match_zero_length, s).prev
                /\ UNCHANGED <<gResult, gpc>>
           ELSE IF prev_match_zero_length
           THEN /\ startOffset' = CursorAfterRetry(startOffset, s, crlf)
                /\ prev_match_zero_length' = FALSE
                /\ UNCHANGED <<gResult, gpc, captures>>
           ELSE /\ gResult' = "Ok"
                /\ gpc' = "done"
                /\ UNCHANGED <<startOffset, prev_match_zero_length, captures>>
    /\ UNCHANGED <<inVars, cfgVars, aVars, tVars, ptVars, sVars>>

\* The while condition fails: line 257 / 280, then line 343.
GlobalLoopEnd ==
    /\ gpc = "loop"
    /\ ~(startOffset <= Len(s))
    /\ gResult' = "Ok"
    /\ gpc' = "done"
    /\ UNCHANGED <<startOffset, prev_match_zero_length, captures, attemptLog,
                   inVars, cfgVars, aVars, tVars, ptVars, sVars>>

NextGlobal == GlobalBegin \/ GlobalAttempt \/ GlobalLoopEnd

SpecGlobal == InitGlobal /\ [][NextGlobal]_vars

(***************************************************************************)
(* Regex: the calls that make one match attempt at offset 0                *)
(***************************************************************************)

\* The answers of the accelerated path: those of the unaccelerated one, or
\* the JIT stack-limit error.
JitAnswers(interp, b) == { interp, ErrorResponse(ERROR_JIT_STACKLIMIT(b)) }

InitSearch ==
    /\ InitPhases_pt
    /\ build \in Builds
    /\ crlf = FALSE
    /\ accel \in BOOLEAN
    /\ pattern = ""
    /\ s = << >>
    /\ match_limit = 0
    /\ gpc = "idle"
    /\ startOffset = 0
    /\ prev_match_zero_length = FALSE
    /\ captures = << >>
    /\ gResult = "none"
    /\ attemptLog = << >>
    /\ SearchUnused
    /\ AllUnused
    /\ ThreadsUnused

\* A pattern is constructed and a subject chosen; the engine's answers for
\* the pair are fixed, so that every call on it sees the same engine.
NewInput ==
    /\ spc = "idle"
    /\ \E p \in ConstructedPatterns(accel) : \E subject \in GlobalSubjects(p) :
        /\ pattern' = p
        /\ s' = subject
        /\ \E i \in EngineResponses(p, subject, 0, FALSE, FALSE, 2, build) :
           \E j \in (IF accel THEN JitAnswers(i, build) ELSE { i }) :
              eng' = [jit |-> j, interp |-> i]
    /\ spc' = "ready"
    /\ UNCHANGED <<match_limit, searchCall, searchMatchCall, oneMatch,
                   cfgVars, aVars, tVars, gVars, ptVars>>

\* The answer of the one engine call the PCRE build makes: pcre_exec with
\* the study data, which runs the JIT code when there is some.
PcreExecAnswer(e, hasAccel) == IF hasAccel THEN e.jit ELSE e.interp

\* search(s), lines 380-403: the result code it ends with.
SearchRc(e, b, hasAccel) ==
    IF b = "PCRE2"
    THEN LET rc == IF hasAccel THEN e.jit.rc ELSE 0
         IN  IF ~hasAccel \/ rc = ERROR_JIT_STACKLIMIT(b) THEN e.interp.rc ELSE rc
    ELSE PcreExecAnswer(e, hasAccel).rc

\* search(s): 1 for a match, 0 for none.
SearchResult(e, b, hasAccel) == IF SearchRc(e, b, hasAccel) > 0 THEN 1 ELSE 0

\* search(s, match), lines 346-360 / 363-365: the answer whose offsets it
\* reads and the value of ret.  In the PCRE2 build ret is the truth value
\* of `pcre2_match(...) > 0`, so it never equals the JIT stack-limit code.
SearchMatchFirstRet(e, b, hasAccel) ==
    IF hasAccel THEN (IF e.jit.rc > 0 THEN 1 ELSE 0) ELSE 0

SearchMatchAnswer(e, b, hasAccel) ==
    IF b = "PCRE2"
    THEN IF ~hasAccel \/ SearchMatchFirstRet(e, b, hasAccel) = ERROR_JIT_STACKLIMIT(b)
         THEN e.interp ELSE e.jit
    ELSE PcreExecAnswer(e, hasAccel)

SearchMatchResult(e, b, hasAccel) ==
    IF SearchMatchAnswer(e, b, hasAccel).rc > 0 THEN 1 ELSE 0

\* std::string(str, pos, count): bytes pos .. pos+count-1 of str, cut at its
\* end; it throws std::out_of_range when pos is past the end.
StdSubstr(str, pos, count) ==
    IF pos > Len(str) THEN [threw |-> TRUE, str |-> << >>]
    ELSE IF count > Len(str) - pos
    THEN [threw |-> FALSE, str |-> SubSeq(str, pos + 1, Len(str))]
    ELSE [threw |-> FALSE, str |-> SubSeq(str, pos + 1, pos + count)]

\* The offset search(s, match) gives the SMatch: line 371.
SearchMatchOffset(start) == 0

\* SMatch(match, offset)
SMatch(match, offset) == [m_match |-> match, m_offset |-> offset]

\* What search(s, match) does with a match (lines 369-371; ret is 1, so
\* it reads ovector[0] and ovector[1]): the SMatch written to *match, as a
\* one-element sequence, or the exception of the std::string constructor.
SearchMatchValue(answer, subject) ==
    LET start == ToSizeT(answer.ov[1][1])
        text == StdSubstr(subject, start, SizeSub(ToSizeT(answer.ov[1][2]), start))
    IN  IF text.threw THEN [threw |-> TRUE, match |-> << >>]
        ELSE [threw |-> FALSE,
              match |-> << SMatch(text.str, SearchMatchOffset(start)) >>]

\* search(s), on a pattern that compiled
Search ==
    /\ spc = "ready"
    /\ Compiled(pattern)
    /\ searchCall = NoOp
    /\ searchCall' = [op |-> "search", ret |-> SearchResult(eng, build, accel)]
    /\ UNCHANGED <<spc, eng, searchMatchCall, oneMatch, inVars, cfgVars, aVars, tVars, gVars, ptVars>>

\* search(s, match), on a pattern that compiled; *match is written on a
\* match only.
SearchMatch ==
    /\ spc = "ready"
    /\ Compiled(pattern)
    /\ searchMatchCall = NoOp
    /\ searchMatchCall' =
          IF SearchMatchResult(eng, build, accel) > 0
          THEN [op |-> "search_match",
                ret |-> SearchMatchResult(eng, build, accel),
                answer |-> SearchMatchAnswer(eng, build, accel),
                threw |-> SearchMatchValue(SearchMatchAnswer(eng, build, accel), s).threw,
                match |-> SearchMatchValue(SearchMatchAnswer(eng, build, accel), s).match]
          ELSE [op |-> "search_match",
                ret |-> SearchMatchResult(eng, build, accel),
                answer |-> SearchMatchAnswer(eng, build, accel),
                threw |-> FALSE,
                match |-> << >>]
    /\ UNCHANGED <<spc, eng, searchCall, oneMatch, inVars, cfgVars, aVars, tVars, gVars, ptVars>>

\* The engine's answer, or its match-limit error when a limit is in force
\* (the null-argument answer comes before any matching is done).
UnderLimit(answer, limitSet, b) ==
    { answer } \cup IF limitSet /\ answer.rc # ERROR_NULL(b)
                    THEN { ErrorResponse(ERROR_MATCHLIMIT(b)) } ELSE {}

\* searchOneMatch, lines 193-225: the answers the call can end with.
OneMatchAnswers(e, b, hasAccel, limit) ==
    IF b = "PCRE2"
    THEN UNION {
           IF ~hasAccel \/ first.rc = ERROR_JIT_STACKLIMIT(b)
           THEN UnderLimit(e.interp, LimitInForce(b, hasAccel, limit), b)
           ELSE { first }
           : first \in IF hasAccel
                       THEN UnderLimit(e.jit, LimitInForce(b, hasAccel, limit), b)
                       ELSE { ErrorResponse(0) } }
    ELSE UnderLimit(PcreExecAnswer(e, hasAccel), LimitInForce(b, hasAccel, limit), b)

\* A faulty group loop: it ends at the first group that fails the bounds
\* check (break for continue).
RECURSIVE OneMatchCaptures_StopsAtSkipped(_, _, _, _)
OneMatchCaptures_StopsAtSkipped(ov, rc, i, subject) ==
    IF i >= rc \/ ~GroupKept(ov, i, subject) THEN << >>
    ELSE << SMatchCapture(i, ToSizeT(ov[i + 1][1]),
                          SizeSub(ToSizeT(ov[i + 1][2]), ToSizeT(ov[i + 1][1]))) >>
         \o OneMatchCaptures_StopsAtSkipped(ov, rc, i + 1, subject)

\* The captures the group loop of searchOneMatch appends (lines 227-236),
\* for groups i .. rc-1.
RECURSIVE OneMatchCaptures(_, _, _, _)
OneMatchCaptures(ov, rc, i, subject) ==
    IF i >= rc THEN << >>
    ELSE (IF GroupKept(ov, i, subject)
          THEN << SMatchCapture(i, ToSizeT(ov[i + 1][1]),
                                SizeSub(ToSizeT(ov[i + 1][2]), ToSizeT(ov[i + 1][1]))) >>
          ELSE << >>)
         \o OneMatchCaptures(ov, rc, i + 1, subject)

\* What the caller's collection may hold before a call.
InitialCaptures == { << >>, << SMatchCapture(0, 0, 0) >> }

\* searchOneMatch(s, captures, match_limit)
SearchOneMatch ==
    /\ spc = "ready"
    /\ oneMatch = NoOp
    /\ \E limit \in MatchLimits : \E pre \in InitialCaptures :
       \E md \in MatchDataOutcomes(build, pattern) :
       \E answer \in OneMatchAnswers(eng, build, accel, limit) :
          oneMatch' = IF md = "crash"
                      THEN [op |-> "searchOneMatch", limit |-> limit, before |-> pre,
                            captures |-> pre, ret |-> "crash"]
                      ELSE [op |-> "searchOneMatch", limit |-> limit, before |-> pre,
                            answer |-> answer,
                            captures |-> pre \o OneMatchCaptures(answer.ov, answer.rc, 0, s),
                            ret |-> to_regex_result(answer.rc, build)]
    /\ UNCHANGED <<spc, eng, searchCall, searchMatchCall, inVars, cfgVars, aVars, tVars, gVars, ptVars>>

NextSearch == NewInput \/ Search \/ SearchMatch \/ SearchOneMatch

SpecSearch == InitSearch /\ [][NextSearch]_vars

(***************************************************************************)
(* Regex: searchAll                                                        *)
(***************************************************************************)

\* The patterns searchAll is called on: the honest ones, one whose group
\* ends before the whole match does, one whose group lies in a lookbehind.
AllPatterns == HonestPatterns \cup {"(X)a", "(?<=(X))a"}

\* A match attempt may start at most this often in the model; a call whose
\* offset moves forward needs one attempt per offset at most.
MaxAllAttempts == LongestSubject + 3

InitAll ==
    /\ InitPhases_pt
    /\ build \in Builds
    /\ crlf = FALSE
    /\ accel \in BOOLEAN
    /\ pattern = ""
    /\ s = << >>
    /\ match_limit = 0
    /\ gpc = "idle"
    /\ startOffset = 0
    /\ prev_match_zero_length = FALSE
    /\ captures = << >>
    /\ gResult = "none"
    /\ attemptLog = << >>
    /\ SearchUnused
    /\ AllUnused
    /\ ThreadsUnused

\* The answers the engine call of one iteration can end with (lines 148-156
\* / 164-165).  PCRE2: the JIT code when there is some, and the interpreter
\* when there is none or the JIT stack ran out.  PCRE: pcre_exec with the
\* study data.
AllAnswers(interp, b, hasAccel) ==
    IF b = "PCRE2"
    THEN UNION { IF ~hasAccel \/ first.rc = ERROR_JIT_STACKLIMIT(b)
                 THEN { interp } ELSE { first }
                 : first \in IF hasAccel THEN JitAnswers(interp, b)
                             ELSE { ErrorResponse(0) } }
    ELSE IF hasAccel THEN JitAnswers(interp, b) ELSE { interp }

\* The group loop of searchAll (lines 167-183) from group i on: what it
\* leaves in rc, offset and retList.
RECURSIVE AllGroups(_, _, _, _, _, _)
AllGroups(ov, rc, i, offset, list, subject) ==
    IF ~(i < rc) THEN [rc |-> rc, offset |-> offset, retList |-> list]
    ELSE LET start == ToSizeT(ov[i + 1][1])
             end == ToSizeT(ov[i + 1][2])
             len == SizeSub(end, start)
         IN  IF end > Len(subject)
             THEN [rc |-> -1, offset |-> offset, retList |-> list]
             ELSE IF len = 0
             THEN [rc |-> 0, offset |-> start + len,
                   retList |-> << SMatch(StdSubstr(subject, start, len).str, start) >> \o list]
             ELSE AllGroups(ov, rc, i + 1, start + len,
                            << SMatch(StdSubstr(subject, start, len).str, start) >> \o list,
                            subject)

\* A call of searchAll(s): lines 140-146 / 159-161.
AllBegin ==
    /\ apc = "idle"
    /\ \E p \in AllPatterns : \E subject \in Subjects :
        /\ pattern' = p
        /\ s' = subject
    /\ apc' = "loop"
    /\ allOffset' = 0
    /\ retList' = << >>
    /\ allLog' = << >>
    /\ UNCHANGED <<match_limit, ptVars, cfgVars, gVars, sVars, tVars>>

\* One iteration of the do-while loop, lines 147-184: one match attempt,
\* the group loop, and the loop condition.
AllAttempt ==
    /\ apc = "loop"
    /\ Len(allLog) < MaxAllAttempts
    /\ \E r \in AllAnswers(HonestExec(CompiledPattern(pattern), s, allOffset, FALSE, build),
                           build, accel) :
        LET g == AllGroups(r.ov, r.rc, 0, allOffset, retList, s)
        IN  /\ allLog' = Append(allLog, [offset |-> allOffset, rc |-> r.rc, ov |-> r.ov])
            /\ allOffset' = g.offset
            /\ retList' = g.retList
            /\ apc' = IF g.rc > 0 THEN "loop" ELSE "done"
    /\ UNCHANGED <<inVars, ptVars, cfgVars, gVars, sVars, tVars>>

NextAll == AllBegin \/ AllAttempt

SpecAll == InitAll /\ [][NextAll]_vars

(***************************************************************************)
(* Regex: calls running concurrently on one Regex object.  Each engine     *)
(* call is one step of its thread; what a call does between two engine     *)
(* calls touches its locals only.                                          *)
(***************************************************************************)

ConcPatterns == {"X", "X*"}

ConcSubjects == { <<"X">>, <<"a", "X">> }

ConcLimits == {0, 2}

ConcOps == {"search", "searchAll", "searchOneMatch", "searchGlobal"}

\* The calls that take no match limit.
UnlimitedOps == {"search", "searchAll"}

\* The work one match attempt costs the engine, in the unit the match limit
\* counts: it grows with the bytes left to scan.
Work(subject, offset) == (Len(subject) - offset) + 1

\* The engine's answer under a budget (0: none): its match-limit code when
\* the attempt costs more than the budget.
ExecUnderBudget(pattern_, subject, offset, anchoredNotEmpty, budget, b) ==
    IF budget > 0 /\ Work(subject, offset) > budget
    THEN ErrorResponse(ERROR_MATCHLIMIT(b))
    ELSE HonestExec(CompiledPattern(pattern_), subject, offset, anchoredNotEmpty, b)

\* A faulty way to set the limit: written into the study data of the Regex
\* object, which the call then hands to the engine.
PceForCall_WritesShared(b, shared, hasAccel, limit) ==
    IF b = "PCRE" /\ hasAccel /\ limit > 0
    THEN [m_pce |-> [match_limit |-> limit, limitFlag |-> TRUE],
          pce |-> [local |-> FALSE, data |-> StudyData]]
    ELSE [m_pce |-> shared,
          pce |-> [local |-> b = "PCRE2",
                   data |-> [match_limit |-> limit, limitFlag |-> limit > 0]]]

\* What searchOneMatch and searchGlobal hand to the engine for the limit,
\* and what becomes of *m_pce.  PCRE2 (lines 194-198 / 247-251): a match
\* context of the call's own, with the limit when it is above 0.  PCRE
\* (lines 214-222 / 268-276): m_pce itself, or, when there is study data
\* and the limit is above 0, a local copy of it with the limit set.
PceForCall(b, shared, hasAccel, limit) ==
    IF b = "PCRE2"
    THEN [m_pce |-> shared,
          pce |-> [local |-> TRUE,
                   data |-> [match_limit |-> limit, limitFlag |-> limit > 0]]]
    ELSE IF hasAccel /\ limit > 0
    THEN [m_pce |-> shared,
          pce |-> [local |-> TRUE,
                   data |-> [shared EXCEPT !.match_limit = limit, !.limitFlag = TRUE]]]
    ELSE [m_pce |-> shared, pce |-> [local |-> FALSE, data |-> StudyData]]

\* What search and searchAll hand to the engine: m_pce itself (PCRE, lines
\* 164, 364, 400), no match context (PCRE2, NULL at lines 150, 155, 353, 386).
PceOfSearch == [local |-> FALSE, data |-> StudyData]

\* The budget an engine call works under: that of the call's own block, or
\* of *m_pce as it is when the engine reads it (PCRE, with study data).
BudgetSeen(pce, shared, b, hasAccel) ==
    IF pce.local
    THEN (IF pce.data.limitFlag THEN pce.data.match_limit ELSE 0)
    ELSE IF b = "PCRE" /\ hasAccel /\ shared.limitFlag THEN shared.match_limit
    ELSE 0

\* One iteration of the loop of searchGlobal (lines 257-338 / 280-338) on
\* the engine's answer r, and the loop condition that follows it.
GlobalStep(r, offset, prev, caps, subject, b, crlfIsNewline) ==
    IF GlobalChecksResult(b) /\ to_regex_result(r.rc, b) # "Ok"
    THEN [done |-> TRUE, ret |-> to_regex_result(r.rc, b),
          startOffset |-> offset, prev |-> prev, captures |-> caps]
    ELSE IF r.rc > 0
    THEN LET c == CursorAfterMatch(r.ov, offset, prev, subject)
         IN  [done |-> ~(c.startOffset <= Len(subject)), ret |-> "Ok",
              startOffset |-> c.startOffset, prev |-> c.prev,
              captures |-> caps \o GlobalGroupCaptures(r.ov, r.rc, 0, Len(caps), subject)]
    ELSE IF prev
    THEN [done |-> ~(CursorAfterRetry(offset, subject, crlfIsNewline) <= Len(subject)),
          ret |-> "Ok",
          startOffset |-> CursorAfterRetry(offset, subject, crlfIsNewline),
          prev |-> FALSE, captures |-> caps]
    ELSE [done |-> TRUE, ret |-> "Ok",
          startOffset |-> offset, prev |-> prev, captures |-> caps]

InitThreads ==
    /\ InitPhases_pt
    /\ build \in Builds
    /\ crlf = FALSE
    /\ accel \in BOOLEAN
    /\ pattern \in ConcPatterns
    /\ s = << >>
    /\ match_limit = 0
    /\ gpc = "idle"
    /\ startOffset = 0
    /\ prev_match_zero_length = FALSE
    /\ captures = << >>
    /\ gResult = "none"
    /\ attemptLog = << >>
    /\ SearchUnused
    /\ AllUnused
    /\ ThreadsUnused

\* Thread t enters search, searchAll, searchOneMatch or searchGlobal; search
\* and searchAll have no limit to set up and go straight to their engine
\* call.  The field captures holds the call's output collection: the
\* captures, or the retList of searchAll.
CallBegin(t) ==
    /\ calls[t].pc = "idle"
    /\ \E op \in ConcOps : \E subject \in ConcSubjects :
       \E limit \in (IF op \in UnlimitedOps THEN {0} ELSE ConcLimits) :
          calls' = [calls EXCEPT ![t] =
                      [pc |-> IF op \in UnlimitedOps THEN "loop" ELSE "setup",
                       op |-> op, s |-> subject, limit |-> limit, pce |-> PceOfSearch,
                       startOffset |-> 0, prev |-> FALSE, captures |-> << >>,
                       ret |-> "none"]]
    /\ UNCHANGED <<m_pce, ptVars, cfgVars, inVars, gVars, sVars, aVars>>

\* Thread t sets the match limit up: lines 194-198 / 214-222 of
\* searchOneMatch, lines 247-251 / 268-276 of searchGlobal.
CallSetup(t) ==
    /\ calls[t].pc = "setup"
    /\ LET o == PceForCall(build, m_pce, accel, calls[t].limit)
       IN  /\ m_pce' = o.m_pce
           /\ calls' = [calls EXCEPT ![t].pc = "loop", ![t].pce = o.pce]
    /\ UNCHANGED <<ptVars, cfgVars, inVars, gVars, sVars, aVars>>

\* Thread t makes one engine call and acts on its answer, up to the next
\* engine call or the return.
CallAttempt(t) ==
    /\ calls[t].pc = "loop"
    /\ LET c == calls[t]
           r == ExecUnderBudget(pattern, c.s, c.startOffset, c.prev,
                                BudgetSeen(c.pce, m_pce, build, accel), build)
           g == GlobalStep(r, c.startOffset, c.prev, c.captures, c.s, build, crlf)
           a == AllGroups(r.ov, r.rc, 0, c.startOffset, c.captures, c.s)
       IN  calls' = [calls EXCEPT ![t] =
              CASE c.op = "search" ->
                      [c EXCEPT !.pc = "done", !.ret = IF r.rc > 0 THEN "1" ELSE "0"]
                [] c.op = "searchAll" ->
                      [c EXCEPT !.pc = IF a.rc > 0 THEN "loop" ELSE "done",
                                !.ret = IF a.rc > 0 THEN "none" ELSE "retList",
                                !.startOffset = a.offset, !.captures = a.retList]
                [] c.op = "searchOneMatch" ->
                      [c EXCEPT !.pc = "done", !.ret = to_regex_result(r.rc, build),
                                !.captures = @ \o OneMatchCaptures(r.ov, r.rc, 0, c.s)]
                [] c.op = "searchGlobal" ->
                      [c EXCEPT !.pc = IF g.done THEN "done" ELSE "loop",
                                !.ret = IF g.done THEN g.ret ELSE "none",
                                !.startOffset = g.startOffset, !.prev = g.prev,
                                !.captures = g.captures]]
    /\ UNCHANGED <<m_pce, ptVars, cfgVars, inVars, gVars, sVars, aVars>>

NextThreads == \E t \in Threads : CallBegin(t) \/ CallSetup(t) \/ CallAttempt(t)

SpecThreads == InitThreads /\ [][NextThreads]_vars

\* The budget a call's own limit amounts to.
OwnBudget(b, hasAccel, limit) == IF LimitInForce(b, hasAccel, limit) THEN limit ELSE 0

\* searchGlobal run on its own, from the given loop state on.
RECURSIVE GlobalRun(_, _, _, _, _, _, _, _)
GlobalRun(pattern_, subject, budget, offset, prev, caps, b, crlfIsNewline) ==
    LET g == GlobalStep(ExecUnderBudget(pattern_, subject, offset, prev, budget, b),
                        offset, prev, caps, subject, b, crlfIsNewline)
    IN  IF g.done THEN [ret |-> g.ret, captures |-> g.captures]
        ELSE GlobalRun(pattern_, subject, budget, g.startOffset, g.prev, g.captures,
                       b, crlfIsNewline)

\* searchAll run on its own, from the given loop state on.
RECURSIVE AllRun(_, _, _, _, _)
AllRun(pattern_, subject, offset, list, b) ==
    LET r == ExecUnderBudget(pattern_, subject, offset, FALSE, 0, b)
        a == AllGroups(r.ov, r.rc, 0, offset, list, subject)
    IN  IF a.rc > 0 THEN AllRun(pattern_, subject, a.offset, a.retList, b)
        ELSE a.retList

\* What a call returns and appends when no other call runs.
RunAlone(op, pattern_, subject, limit, b, hasAccel, crlfIsNewline) ==
    LET r == ExecUnderBudget(pattern_, subject, 0, FALSE,
                             IF op \in UnlimitedOps THEN 0
                             ELSE OwnBudget(b, hasAccel, limit), b)
    IN  CASE op = "search" ->
                [ret |-> IF r.rc > 0 THEN "1" ELSE "0", captures |-> << >>]
          [] op = "searchAll" ->
                [ret |-> "retList", captures |-> AllRun(pattern_, subject, 0, << >>, b)]
          [] op = "searchOneMatch" ->
                [ret |-> to_regex_result(r.rc, b),
                 captures |-> OneMatchCaptures(r.ov, r.rc, 0, subject)]
          [] op = "searchGlobal" ->
                GlobalRun(pattern_, subject, OwnBudget(b, hasAccel, limit), 0, FALSE,
                          << >>, b, crlfIsNewline)

\* C13: calls running concurrently on one Regex object never write its
\* fields; each applies its match limit to a block of its own, so under
\* every interleaving a call returns and appends what it does when it runs
\* alone.
C13_ConcurrentCallsAsAlone ==
    /\ m_pce = StudyData
    /\ \A t \in Threads :
          calls[t].pc = "done" =>
              [ret |-> calls[t].ret, captures |-> calls[t].captures]
                  = RunAlone(calls[t].op, pattern, calls[t].s, calls[t].limit,
                             build, accel, crlf)

\* C13's case: two calls with different limits and different subjects are
\* in flight at once, one past its setup and the other past an engine call,
\* on a Regex object with study data.
C13_TwoCallsInFlight ==
    \E t, u \in Threads :
        /\ accel
        /\ calls[t].pc = "loop" /\ calls[t].limit > 0
        /\ calls[u].pc = "loop" /\ calls[u].limit = 0 /\ calls[u].op = "searchGlobal"
        /\ calls[u].startOffset > 0
        /\ calls[t].s # calls[u].s

(***************************************************************************)
(* Claims about the phase table (checked under SpecPhases)                 *)
(***************************************************************************)

\* C1: insert(rule) returns false and leaves every bucket unchanged, touching
\* no bucket index outside [0, NUMBER_OF_PHASES), whenever rule.phase is
\* NUMBER_OF_PHASES or more or is negative; otherwise it appends the rule to
\* bucket rule.phase and returns true.
C1_InsertContract ==
    lastOp.op = "insert" =>
        IF lastOp.rule.phase >= NUMBER_OF_PHASES \/ lastOp.rule.phase < 0
        THEN /\ lastOp.ret = "false"
             /\ m_rulesAtPhase = lastOp.before
             /\ lastOp.touched \subseteq PhaseIndexes
        ELSE /\ lastOp.ret = "true"
             /\ m_rulesAtPhase =
                   [lastOp.before EXCEPT ![lastOp.rule.phase] = Append(@, lastOp.rule)]

\* C1, the case that fails: an insert of a rule with a negative phase.
C1_NegativePhaseInserted ==
    lastOp.op = "insert" /\ lastOp.rule.phase < 0

\* No two operator-bearing rules of table t have the same identifier.
NoDuplicateIds(t) ==
    LET ids == CollectIds(t, 0)
    IN  \A j, k \in 1 .. Len(ids) : j # k => ids[j] # ids[k]

\* The first two appends were run back to back, with the same source table,
\* on a table that was empty.
AppendedTwiceOnEmpty ==
    /\ Len(appendLog) >= 2
    /\ appendLog[1].before = EmptyTable
    /\ appendLog[2].from = appendLog[1].from
    /\ appendLog[2].before = appendLog[1].after

\* C5: starting from an empty destination, after append(source) is run twice
\* with the same source, no two operator-bearing rules of the destination
\* have the same identifier, and the second append's exclusion list holds
\* every identifier the first append introduced.
C5_AppendTwiceNoDuplicateIds ==
    AppendedTwiceOnEmpty =>
        /\ NoDuplicateIds(appendLog[2].after)
        /\ LET introduced == CollectIds(appendLog[1].after, 0)
           IN  \A k \in 1 .. Len(introduced) : InSeq(introduced[k], appendLog[2].v)

\* C5, the case that fails: the source holds one identifier twice.
C5_AppendedTwiceDuplicateSource ==
    AppendedTwiceOnEmpty /\ ~NoDuplicateIds(appendLog[1].from)

\* The merge of phase q in append call e that did not fail: the outcome of
\* the per-bucket merge with a non-negative count.
MergedPhase(e, q) ==
    CHOOSE m \in BucketMerge(e.before[q], e.from[q], e.v) : m.res >= 0

RECURSIVE SumOfCounts(_, _)
SumOfCounts(e, q) ==
    IF q >= NUMBER_OF_PHASES THEN 0
    ELSE MergedPhase(e, q).res + SumOfCounts(e, q + 1)

\* C11: append merges the phases in ascending order; when the merge of
\* phase p returns a negative result, append returns that same result at
\* once, the buckets of the phases above p are unchanged and the rules
\* merged into the phases below p remain (no rollback); when no phase
\* fails, append returns the sum of the per-phase counts.
C11_AppendAbortsAtFailedPhase ==
    \A k \in 1 .. Len(appendLog) :
        LET e == appendLog[k]
        IN  IF e.ret < 0
            THEN \E p \in PhaseIndexes :
                    /\ \E m \in BucketMerge(e.before[p], e.from[p], e.v) :
                          m.res = e.ret /\ e.after[p] = m.bucket
                    /\ \A q \in PhaseIndexes : q > p => e.after[q] = e.before[q]
                    /\ \A q \in PhaseIndexes : q < p => e.after[q] = MergedPhase(e, q).bucket
            ELSE /\ \A q \in PhaseIndexes : e.after[q] = MergedPhase(e, q).bucket
                 /\ e.ret = SumOfCounts(e, 0)

\* C11's case: an append failed at phase p, on a rule whose identifier is in
\* the exclusion list, after it had merged rules into phase p - 1.
C11_FailedAfterMerging ==
    \E k \in 1 .. Len(appendLog) : \E p \in PhaseIndexes :
        /\ appendLog[k].ret < 0
        /\ p > 0
        /\ appendLog[k].after[p - 1] # appendLog[k].before[p - 1]
        /\ \E r \in 1 .. Len(appendLog[k].from[p]) :
              Conflicts(appendLog[k].from[p][r], appendLog[k].v)

\* Every rule of bucket i of table t has phase i.
BucketsHoldTheirPhase(t) ==
    \A i \in PhaseIndexes : \A k \in 1 .. Len(t[i]) : t[i][k].phase = i

\* C14: after any sequence of insert and append calls (the appended tables
\* satisfying the same invariant), every rule of bucket i has phase i, and
\* no rule whose phase is outside [0, NUMBER_OF_PHASES) is held anywhere in
\* the table: a rule that insert stored was stored in a bucket of the table.
C14_BucketsHoldOnlyTheirPhase ==
    /\ BucketsHoldTheirPhase(m_rulesAtPhase)
    /\ lastOp.op = "insert" => lastOp.touched \subseteq PhaseIndexes

\* C14, the case that fails: insert accepted a rule with a negative phase.
C14_NegativePhaseAccepted ==
    /\ lastOp.op = "insert"
    /\ lastOp.rule.phase < 0
    /\ lastOp.ret = "true"
    /\ BucketsHoldTheirPhase(fromTable)

\* C20: if the operator-bearing rules of the destination have pairwise
\* distinct identifiers before append(source) and the append returns a
\* non-negative count, they have pairwise distinct identifiers afterwards,
\* for every source, one that holds an identifier twice included.
C20_AppendKeepsIdsDistinct ==
    \A k \in 1 .. Len(appendLog) :
        (NoDuplicateIds(appendLog[k].before) /\ appendLog[k].ret >= 0) =>
            NoDuplicateIds(appendLog[k].after)

\* C20, the case that fails: a source that holds an identifier twice, none
\* of them in the destination, and an append that returned a count.
C20_DuplicateSourceAppended ==
    \E k \in 1 .. Len(appendLog) :
        /\ NoDuplicateIds(appendLog[k].before)
        /\ appendLog[k].ret >= 0
        /\ ~NoDuplicateIds(appendLog[k].from)
        /\ appendLog[k].v = << >>

(***************************************************************************)
(* Claims about searchGlobal (checked under SpecGlobal)                    *)
(***************************************************************************)

\* Attempt k of the call ended in an engine error (its classification is
\* not Ok).
AttemptFailed(k) == to_regex_result(attemptLog[k].rc, build) # "Ok"

NoEngineError == \A k \in 1 .. Len(attemptLog) : ~AttemptFailed(k)

\* C2: in every build, if a match attempt of searchGlobal yields a result
\* whose classification is not Ok, the call stops at that attempt and
\* returns exactly that classification, never Ok, and the captures appended
\* by earlier attempts remain in the collection.
C2_GlobalStopsOnEngineError ==
    \A k \in 1 .. Len(attemptLog) :
        AttemptFailed(k) =>
            /\ k = Len(attemptLog)
            /\ gpc = "done"
            /\ gResult = to_regex_result(attemptLog[k].rc, build)
            /\ captures = attemptLog[k].before

\* C2, the case that fails: the PCRE2 build, an attempt that exceeded the
\* match limit.
C2_Pcre2AttemptFailed ==
    /\ build = "PCRE2"
    /\ \E k \in 1 .. Len(attemptLog) : attemptLog[k].rc = ERROR_MATCHLIMIT(build)

\* C4: searchGlobal never repeats a match attempt with the same cursor
\* offset and the same prev_match_zero_length flag, whatever the engine
\* answers (no match, zero-length match, non-empty match, a match whose
\* group 0 ends past the subject); on the empty subject it records at most
\* one zero-length match at offset 0 and returns Ok.
C4_GlobalNeverRepeatsAttempt ==
    NoEngineError =>
        /\ \A j, k \in 1 .. Len(attemptLog) :
              j < k => <<attemptLog[j].offset, attemptLog[j].prev>>
                          # <<attemptLog[k].offset, attemptLog[k].prev>>
        /\ (s = << >> /\ gpc = "done") =>
              /\ gResult = "Ok"
              /\ Len(captures) <= 1
              /\ \A k \in 1 .. Len(captures) :
                    captures[k].m_offset = 0 /\ captures[k].m_length = 0

\* C4, the case that fails: an answer whose group 0 ends past the subject.
C4_Group0Skipped ==
    \E k \in 1 .. Len(attemptLog) :
        attemptLog[k].rc > 0 /\ ~GroupKept(attemptLog[k].ov, 0, s)

\* The zero-length captures at offsets from .. Len(subject), numbered from
\* index on, leaving out the offsets between a CR and its LF when skipCrlf.
RECURSIVE EmptyCapturesFrom(_, _, _, _)
EmptyCapturesFrom(subject, from, index, skipCrlf) ==
    IF from > Len(subject) THEN << >>
    ELSE IF skipCrlf /\ from >= 1 /\ from < Len(subject)
            /\ subject[from] = "CR" /\ subject[from + 1] = "LF"
    THEN EmptyCapturesFrom(subject, from + 1, index, skipCrlf)
    ELSE <<SMatchCapture(index, from, 0)>>
         \o EmptyCapturesFrom(subject, from + 1, index + 1, skipCrlf)

EmptyOnlyCallDone == pattern = "(?:)" /\ gpc = "done" /\ NoEngineError

\* C8 as claimed: for a pattern that matches only the empty string,
\* searchGlobal over a subject of length N returns Ok and appends exactly
\* N+1 zero-length captures, one at each offset 0..N, whatever the bytes of
\* the subject and whatever the newline configuration.
C8_EmptyPatternEveryOffset ==
    EmptyOnlyCallDone =>
        /\ gResult = "Ok"
        /\ captures = EmptyCapturesFrom(s, 0, 0, FALSE)

\* C8 as amended: for a pattern that matches only the empty string, and no
\* engine error, searchGlobal returns Ok and appends one zero-length capture
\* at each offset 0..N except, when CRLF is a newline, the offsets between a
\* CR and the LF that follows it.
C8_EmptyPatternEveryOffsetButInsideCrlf ==
    EmptyOnlyCallDone =>
        /\ gResult = "Ok"
        /\ captures = EmptyCapturesFrom(s, 0, 0, crlf)
        /\ (~crlf => Len(captures) = Len(s) + 1)

\* C8's case: the call is over, CRLF is a newline and the subject holds a
\* CR LF pair.
C8_EmptyPatternOverCrlf ==
    /\ EmptyOnlyCallDone
    /\ crlf
    /\ \E k \in 1 .. (Len(s) - 1) : s[k] = "CR" /\ s[k + 1] = "LF"
    /\ Len(captures) = Len(s)

\* The leftmost non-overlapping occurrences of a literal of width w made of
\* "X" bytes, scanning from offset from, as captures numbered from index on.
RECURSIVE LiteralOccurrences(_, _, _, _)
LiteralOccurrences(subject, w, from, index) ==
    IF from + w > Len(subject) THEN << >>
    ELSE IF \A d \in 1 .. w : subject[from + d] = "X"
    THEN <<SMatchCapture(index, from, w)>>
         \o LiteralOccurrences(subject, w, from + w, index + 1)
    ELSE LiteralOccurrences(subject, w, from + 1, index)

LiteralWidth(p) == IF p = "XX" THEN 2 ELSE 1

LiteralCallDone == pattern \in {"X", "XX"} /\ gpc = "done" /\ NoEngineError

\* C9: for a pattern without groups whose matches are all non-empty,
\* searchGlobal returns Ok and appends exactly one group-0 capture per
\* leftmost non-overlapping occurrence, in increasing start offset, each
\* starting at or after the end of the one before; "aXbXc" with "X" yields
\* two captures, at offsets 1 and 3, of length 1.
C9_GlobalLiteralOccurrences ==
    LiteralCallDone =>
        /\ gResult = "Ok"
        /\ captures = LiteralOccurrences(s, LiteralWidth(pattern), 0, 0)
        /\ \A k \in 1 .. (Len(captures) - 1) :
              captures[k + 1].m_offset >= captures[k].m_offset + captures[k].m_length
        /\ (pattern = "X" /\ s = <<"a", "X", "b", "X", "c">>) =>
              captures = <<SMatchCapture(0, 1, 1), SMatchCapture(1, 3, 1)>>

\* C9's case: the call on "aXbXc" with pattern "X" is over.
C9_aXbXcDone ==
    /\ LiteralCallDone
    /\ pattern = "X"
    /\ s = <<"a", "X", "b", "X", "c">>
    /\ Len(captures) = 2

\* C10: in one searchGlobal call on an empty collection, the group indexes
\* of the appended captures are strictly increasing in append order, and
\* the index range of each match is disjoint from every other match's, also
\* when a group of a match is skipped.
C10_GlobalIndexesIncrease ==
    /\ \A j, k \in 1 .. Len(captures) :
          j < k => captures[j].m_group < captures[k].m_group
    /\ \A j, k \in 1 .. Len(attemptLog) :
          (j < k /\ attemptLog[j].rc > 0 /\ attemptLog[k].rc > 0 /\ gpc = "done") =>
              Len(attemptLog[j].before) + attemptLog[j].rc - 1 < Len(attemptLog[k].before)

\* C10, the case that fails: a match with an unset group, and a match
\* after it.
C10_SkippedGroupThenMatch ==
    \E j, k \in 1 .. Len(attemptLog) :
        /\ j < k
        /\ attemptLog[j].rc > 1
        /\ \E i \in 1 .. (attemptLog[j].rc - 1) : ~GroupKept(attemptLog[j].ov, i, s)
        /\ attemptLog[k].rc > 0

\* C12: for a pattern whose compilation failed (no compiled handle),
\* searchOneMatch and searchGlobal return ErrorOther and append no capture,
\* in every build; they never return Ok.
C12_UncompiledPatternFails ==
    ~Compiled(pattern) =>
        /\ gpc \in {"done", "crashed"} => (gResult = "ErrorOther" /\ captures = << >>)
        /\ oneMatch # NoOp =>
              (oneMatch.ret = "ErrorOther" /\ oneMatch.captures = oneMatch.before)

\* C12, the case that fails: the PCRE2 build, searchGlobal called on a
\* pattern that did not compile, and the call returned.
C12_Pcre2UncompiledReturned ==
    ~Compiled(pattern) /\ build = "PCRE2" /\ gpc = "done"

MaxGroups == 3

\* C15: searchAll terminates, and the number of its match attempts and of
\* the SMatch values it returns is bounded by the subject length and the
\* group count, also when a group of a match ends before the whole match
\* does or lies before the search offset.  In finite runs: a call makes at
\* most one attempt per offset of the subject, no two at the same offset
\* (the engine answers alike at the same offset, so a call that comes back
\* to an offset never ends), and returns at most one SMatch per group and
\* attempt.
C15_SearchAllBounded ==
    /\ Len(allLog) <= Len(s) + 1
    /\ \A j, k \in 1 .. Len(allLog) : j < k => allLog[j].offset # allLog[k].offset
    /\ Len(retList) <= (Len(s) + 1) * MaxGroups

\* C15, the case that fails: a match whose explicit group lies before the
\* offset the attempt started at, and an attempt after it.
C15_GroupBeforeOffset ==
    \E k \in 1 .. (Len(allLog) - 1) :
        /\ allLog[k].rc > 1
        /\ allLog[k].ov[2][2] <= allLog[k].offset
        /\ allLog[k + 1].offset = allLog[k].offset

\* C16: in searchAll, after an iteration that found a non-empty whole match
\* [start, end), the next attempt starts at end, wherever the explicit
\* groups of the match lie.
C16_NextAttemptAtMatchEnd ==
    \A k \in 1 .. (Len(allLog) - 1) :
        (allLog[k].rc > 0 /\ allLog[k].ov[1][2] > allLog[k].ov[1][1]) =>
            allLog[k + 1].offset = allLog[k].ov[1][2]

\* C16, the case that fails: a match whose explicit group ends before the
\* whole match does, and an attempt after it.
C16_GroupEndsBeforeMatch ==
    \E k \in 1 .. (Len(allLog) - 1) :
        /\ allLog[k].rc > 1
        /\ allLog[k].ov[2][2] < allLog[k].ov[1][2]
        /\ allLog[k].ov[2][1] >= allLog[k].ov[1][1]

(***************************************************************************)
(* Claims about the single-attempt calls (checked under SpecSearch)        *)
(***************************************************************************)

\* search(s, match) was called and its engine answer is a match.
SearchMatchFound == searchMatchCall # NoOp /\ searchMatchCall.answer.rc > 0

\* C3: no Match or Capture value is returned for a group whose reported end
\* offset exceeds the subject length, whatever the engine answers: not by
\* search(s, match), and not by searchOneMatch.
C3_NoMatchPastSubjectEnd ==
    /\ (SearchMatchFound /\ ToSizeT(searchMatchCall.answer.ov[1][2]) > Len(s)) =>
          searchMatchCall.match = << >>
    /\ oneMatch # NoOp =>
          \A k \in (Len(oneMatch.before) + 1) .. Len(oneMatch.captures) :
              oneMatch.captures[k].m_offset + oneMatch.captures[k].m_length <= Len(s)

\* C3, the case that fails: search(s, match) got a match that ends past the
\* subject and starts inside it.
C3_SearchMatchPastEnd ==
    /\ SearchMatchFound
    /\ ToSizeT(searchMatchCall.answer.ov[1][2]) > Len(s)
    /\ ~searchMatchCall.threw

\* search(s, match) matched and group 0 lies inside the subject.
SearchMatchInside ==
    /\ SearchMatchFound
    /\ ToSizeT(searchMatchCall.answer.ov[1][2]) <= Len(s)
    /\ searchMatchCall.answer.ov[1][1] >= 0

\* C6: when search(s, match) finds a match whose group 0 spans [start, end)
\* of the subject, the SMatch it produces has the text subject[start:end]
\* and the offset start, for every start.
C6_MatchTextAndOffset ==
    SearchMatchInside =>
        searchMatchCall.match =
            << SMatch(SubSeq(s, searchMatchCall.answer.ov[1][1] + 1,
                             searchMatchCall.answer.ov[1][2]),
                      searchMatchCall.answer.ov[1][1]) >>

\* C6, the case that fails: a match that starts after offset 0.
C6_MatchNotAtStart ==
    SearchMatchInside /\ searchMatchCall.answer.ov[1][1] > 0

\* search(s) and search(s, match) were both called, on a non-empty pattern,
\* and both returned.
BothSearched ==
    /\ pattern # ""
    /\ searchCall # NoOp
    /\ searchMatchCall # NoOp
    /\ ~searchMatchCall.threw

\* C7: for every non-empty pattern and every subject, search(s) and
\* search(s, match) report the same match/no-match outcome, in every build
\* and for every answer of the accelerated path, the JIT stack limit
\* included.
C7_SearchVariantsAgree ==
    BothSearched => ((searchCall.ret > 0) <=> (searchMatchCall.ret > 0))

\* C7, the case that fails: the accelerated path reports the JIT stack
\* limit and the unaccelerated path finds a match.
C7_JitStackLimitAndMatch ==
    /\ BothSearched
    /\ accel
    /\ eng.jit.rc = ERROR_JIT_STACKLIMIT(build)
    /\ eng.interp.rc > 0

\* searchOneMatch was called and returned.
OneMatchReturned == oneMatch # NoOp /\ oneMatch.ret # "crash"

\* The groups of an answer whose end offset is set and at most the subject
\* length, in ascending order, each as the capture (i, start, end - start).
CapturesOfKeptGroups(ov, subject) ==
    LET groups == [k \in 1 .. Len(ov) |-> k - 1]
        kept == SelectSeq(groups,
                    LAMBDA i : ov[i + 1][2] >= 0 /\ ov[i + 1][2] <= Len(subject))
    IN  [k \in 1 .. Len(kept) |->
            SMatchCapture(kept[k], ov[kept[k] + 1][1],
                          ov[kept[k] + 1][2] - ov[kept[k] + 1][1])]

\* C17: searchOneMatch makes one match attempt, at offset 0, leaves the
\* captures already in the collection unchanged and appends, in ascending
\* group order, one capture (i, start_i, end_i - start_i) for each group i
\* of that attempt whose end is at most the subject length; it appends
\* nothing when the attempt finds no match or fails.
C17_OneMatchAppendsKeptGroups ==
    OneMatchReturned =>
        /\ (pattern \in HonestPatterns /\ oneMatch.answer.rc > 0) =>
              oneMatch.answer = HonestExec(CompiledPattern(pattern), s, 0, FALSE, build)
        /\ Len(oneMatch.captures) >= Len(oneMatch.before)
        /\ SubSeq(oneMatch.captures, 1, Len(oneMatch.before)) = oneMatch.before
        /\ SubSeq(oneMatch.captures, Len(oneMatch.before) + 1, Len(oneMatch.captures))
              = IF oneMatch.answer.rc > 0
                THEN CapturesOfKeptGroups(oneMatch.answer.ov, s)
                ELSE << >>

\* C17's case: a call on a collection that held a capture, whose attempt
\* matched with group 1 unset and group 2 set.
C17_OneMatchSkippedGroup ==
    /\ OneMatchReturned
    /\ oneMatch.before # << >>
    /\ oneMatch.answer.rc = 3
    /\ oneMatch.answer.ov[2] = UnsetPair
    /\ Len(oneMatch.captures) = 3

\* The engine result codes the classification is checked over: every code
\* of either engine and the positive results.
ResultCodes == -70 .. 10

\* The class the claim gives a result code: the positive results and the
\* no-match code are Ok, the match-limit code (PCRE -8, PCRE2 -47) is
\* ErrorMatchLimit, all others, 0 included, are ErrorOther.
ClassOfCode(rc, b) ==
    CASE rc > 0 \/ rc = -1 -> "Ok"
      [] rc = (IF b = "PCRE2" THEN -47 ELSE -8) -> "ErrorMatchLimit"
      [] OTHER -> "ErrorOther"

\* C19: to_regex_result, and so the value searchOneMatch returns, is a total
\* function of the engine result code into three values: a positive result
\* and the no-match code give Ok, the match-limit code gives
\* ErrorMatchLimit, every other code, 0 included, gives ErrorOther.
C19_ResultClassification ==
    /\ \A rc \in ResultCodes : to_regex_result(rc, build) = ClassOfCode(rc, build)
    /\ OneMatchReturned =>
          /\ oneMatch.ret \in {"Ok", "ErrorMatchLimit", "ErrorOther"}
          /\ oneMatch.ret = ClassOfCode(oneMatch.answer.rc, build)

\* C19's case: a searchOneMatch call whose engine result was 0.
C19_OneMatchZeroResult ==
    /\ OneMatchReturned
    /\ oneMatch.answer.rc = 0
    /\ oneMatch.ret = "ErrorOther"

====
